---------------------------- MODULE Spec2Model ----------------------------
(***************************************************************************)
(* A model of the product-matching pipeline: the fetcher (utils.http_get), *)
(* the candidate search (searcher), the signal extractor's attribute       *)
(* merging (extractor), the similarity scorer (scorer) and the job         *)
(* registry with its progress queue (app).                                 *)
(*                                                                         *)
(* Text is modelled as a sequence of one-character strings, so that the    *)
(* code's regular expressions, splits, strips and lower-casing are         *)
(* computed rather than assumed.  Scores are integers: a component score   *)
(* is in thousandths (1000 = 1.0) and the fused similarity, whose weights  *)
(* are hundredths, is in hundred-thousandths (100000 = 1.0).               *)
(*                                                                         *)
(* Each component has its own specification (SpecHttp, SpecSearch, ...);   *)
(* the variables of the other components stay at their idle values.  Spec  *)
(* is the job registry of app.py.                                          *)
(***************************************************************************)
EXTENDS Integers, Sequences, FiniteSets, TLC

VARIABLES
    \* utils.http_get
    max_retries, attempt, last_exc, responses, http_pc, http_result,
    \* searcher.search_candidates
    original_url, queries, served, candidates, seen_domains, search_pc,
    search_result,
    \* searcher.build_queries
    signals, first_queries, second_queries, queries_pc,
    \* extractor.extract_product_signals (attribute mining)
    page, attributes, extract_pc,
    \* scorer._compute_similarity
    seed, cand, seed_emb, cand_emb, sim, sim_pc,
    \* scorer.score_candidates
    seed_signals, candidate_urls, provider, completed, extracted, embs,
    scored, score_pc,
    \* app: the job registry, the job threads and the event streams
    jobs, job_pc, job_local, enqueued, streamed

httpVars == <<max_retries, attempt, last_exc, responses, http_pc, http_result>>

searchVars ==
    <<original_url, queries, served, candidates, seen_domains, search_pc,
      search_result>>

queryVars == <<signals, first_queries, second_queries, queries_pc>>

extractVars == <<page, attributes, extract_pc>>

simVars == <<seed, cand, seed_emb, cand_emb, sim, sim_pc>>

scoreVars ==
    <<seed_signals, candidate_urls, provider, completed, extracted, embs,
      scored, score_pc>>

appVars == <<jobs, job_pc, job_local, enqueued, streamed>>

vars ==
    <<httpVars, searchVars, queryVars, extractVars, simVars, scoreVars, appVars>>

\* What the steps of one component leave alone: the other components.
HttpFrame ==
    UNCHANGED <<searchVars, queryVars, extractVars, simVars, scoreVars, appVars>>
SearchFrame ==
    UNCHANGED <<httpVars, queryVars, extractVars, simVars, scoreVars, appVars>>
QueryFrame ==
    UNCHANGED <<httpVars, searchVars, extractVars, simVars, scoreVars, appVars>>
ExtractFrame ==
    UNCHANGED <<httpVars, searchVars, queryVars, simVars, scoreVars, appVars>>
SimFrame ==
    UNCHANGED <<httpVars, searchVars, queryVars, extractVars, scoreVars, appVars>>
ScoreFrame ==
    UNCHANGED <<httpVars, searchVars, queryVars, extractVars, simVars, appVars>>
AppFrame ==
    UNCHANGED <<httpVars, searchVars, queryVars, extractVars, simVars, scoreVars>>

-----------------------------------------------------------------------------
(* Text helpers: Python's str operations on sequences of characters.       *)

\* str.lower() on one character (the upper-case letters the model's texts use)
LowerChar(c) ==
    CASE c = "A" -> "a" [] c = "B" -> "b" [] c = "C" -> "c" [] c = "D" -> "d"
      [] c = "H" -> "h" [] c = "P" -> "p" [] c = "S" -> "s" [] c = "T" -> "t"
      [] c = "X" -> "x" [] OTHER -> c

\* str.lower()
Lower(s) == IF s = <<>> THEN <<>> ELSE [i \in 1..Len(s) |-> LowerChar(s[i])]

\* s[n:] (Python slice from index n, 0-based)
DropFirst(s, n) == IF n >= Len(s) THEN <<>> ELSE SubSeq(s, n + 1, Len(s))

\* s.startswith(p)
StartsWith(s, p) == Len(p) <= Len(s) /\ SubSeq(s, 1, Len(p)) = p

\* p in s (substring test)
Contains(s, p) ==
    \E i \in 0..(Len(s) - Len(p)) : SubSeq(s, i + 1, i + Len(p)) = p

\* s.split(sep)[0] for a one-character separator
SplitFirst(s, sep) ==
    IF \E i \in DOMAIN s : s[i] = sep
    THEN LET i == CHOOSE k \in DOMAIN s :
                      s[k] = sep /\ \A m \in 1..(k - 1) : s[m] # sep
         IN  SubSeq(s, 1, i - 1)
    ELSE s

\* str.strip() for the blank character
Strip(s) ==
    IF \A i \in DOMAIN s : s[i] = " " THEN <<>>
    ELSE LET a == CHOOSE k \in DOMAIN s :
                      s[k] # " " /\ \A m \in 1..(k - 1) : s[m] = " "
             b == CHOOSE k \in DOMAIN s :
                      s[k] # " " /\ \A m \in (k + 1)..Len(s) : s[m] = " "
         IN  SubSeq(s, a, b)

-----------------------------------------------------------------------------
(* utils.http_get: one GET per loop iteration, at most max_retries + 1.    *)

\* Largest max_retries argument the model passes (the default is 2).
MaxRetriesArg == 2

\* Response header values for Content-Type, as token sequences; <<>> is a
\* response without the header (headers.get("Content-Type", "")).
ContentTypes ==
    { <<"text/html">>, <<"text/html", ";", "charset=utf-8">>,
      <<"application/json">>, <<>> }

\* "text/html" in resp.headers.get("Content-Type", "")
IsHtml(ctype) == \E i \in DOMAIN ctype : ctype[i] = "text/html"

\* What one requests.get can do: raise, or answer with a status, a header
\* and a body.
Outcomes ==
    { [kind |-> "exception", status |-> 0, ctype |-> <<>>, text |-> "none"] }
    \cup [kind : {"response"}, status : {200, 404}, ctype : ContentTypes,
          text : {"pageA", "pageB"}]

\* The condition of the return inside the try block.
Succeeds(o) == o.kind = "response" /\ o.status = 200 /\ IsHtml(o.ctype)

\* The position after an attempt that did not return: the except clause
\* swallows every Exception, so an exception and a rejected response both
\* fall through to the sleep and the next iteration.
AfterFailureLeaky(o, n, mr) ==
    IF o.kind = "exception" THEN "raised"
    ELSE IF n + 1 > mr THEN "returned" ELSE "loop"

AfterFailure(o, n, mr) == IF n + 1 > mr THEN "returned" ELSE "loop"

HttpIdle ==
    /\ max_retries = 0
    /\ attempt = 0
    /\ last_exc = FALSE
    /\ responses = <<>>
    /\ http_result = "None"
    /\ http_pc = "idle"

HttpInit ==
    /\ max_retries \in 0..MaxRetriesArg
    /\ attempt = 0
    /\ last_exc = FALSE
    /\ responses = <<>>
    /\ http_result = "None"
    /\ http_pc = "loop"

\* One iteration of `for attempt in range(max_retries + 1)`.
HttpAttempt ==
    /\ http_pc = "loop"
    /\ attempt <= max_retries
    /\ \E o \in Outcomes :
         /\ responses' = Append(responses, o)
         /\ IF Succeeds(o)
            THEN /\ http_result' = o.text
                 /\ http_pc' = "returned"
                 /\ UNCHANGED <<attempt, last_exc>>
            ELSE /\ last_exc' = (last_exc \/ o.kind = "exception")
                 /\ attempt' = attempt + 1
                 /\ http_pc' = AfterFailure(o, attempt, max_retries)
                 /\ http_result' = "None"
    /\ UNCHANGED max_retries
    /\ HttpFrame

HttpNext == HttpAttempt

\* C3: http_get never raises to its caller, makes at most max_retries + 1
\* requests, returns the text of the first response whose status is 200 and
\* whose Content-Type contains text/html (and asks nothing after it), and
\* returns None when every one of the max_retries + 1 attempts ended in an
\* exception, a non-200 status or a wrong content type.
HttpGetContract ==
    /\ http_pc # "raised"
    /\ Len(responses) <= max_retries + 1
    /\ \A i \in DOMAIN responses :
         Succeeds(responses[i]) =>
            /\ i = Len(responses)
            /\ http_pc = "returned"
            /\ http_result = responses[i].text
    /\ (http_pc = "returned" /\ \A i \in DOMAIN responses : ~Succeeds(responses[i]))
         => /\ http_result = "None"
            /\ Len(responses) = max_retries + 1

\* All three attempts of the default call fail, one in each way, and the
\* call has returned None.
HttpExhaustedWitness ==
    /\ http_pc = "returned"
    /\ max_retries = 2
    /\ Len(responses) = 3
    /\ http_result = "None"
    /\ \E i \in DOMAIN responses : responses[i].kind = "exception"
    /\ \E i \in DOMAIN responses :
         responses[i].kind = "response" /\ responses[i].status # 200
    /\ \E i \in DOMAIN responses :
         /\ responses[i].kind = "response"
         /\ responses[i].status = 200
         /\ ~IsHtml(responses[i].ctype)

-----------------------------------------------------------------------------
(* utils.get_domain and searcher.search_candidates.                        *)

Https == <<"h", "t", "t", "p", "s", ":", "/", "/">>
Http == <<"h", "t", "t", "p", ":", "/", "/">>
\* "Https://": the scheme as a phone keyboard capitalises it
HttpsCap == <<"H", "t", "t", "p", "s", ":", "/", "/">>

\* re.sub(r"^https?://", "", url): the pattern is case-sensitive.
StripScheme(url) ==
    IF StartsWith(url, Https) THEN DropFirst(url, Len(Https))
    ELSE IF StartsWith(url, Http) THEN DropFirst(url, Len(Http))
    ELSE url

get_domain(url) == Lower(SplitFirst(StripScheme(url), "/"))

\* NON_PRODUCT_PATTERNS, each searched anywhere in the URL, ignoring case.
NON_PRODUCT_PATTERNS ==
    { <<"/", "s", "e", "a", "r", "c", "h">>,
      <<"/", "c", "o", "l", "l", "e", "c", "t", "i", "o", "n", "s">>,
      <<"/", "c", "a", "t", "e", "g", "o", "r", "y">>,
      <<"/", "c", "/">>,
      <<"/", "s", "?">>,
      <<"/", "c", "a", "r", "t">>,
      <<"/", "a", "c", "c", "o", "u", "n", "t">>,
      <<"/", "h", "e", "l", "p">>,
      <<"/", "b", "l", "o", "g">> }

_looks_like_product_url(url) ==
    ~\E p \in NON_PRODUCT_PATTERNS : Contains(Lower(url), p)

\* candidates[:20]
MaxCandidates == 20

\* The inner loop of search_candidates over one query's results: st is
\* [cands, seen]; the URL is skipped when it looks like a listing page, when
\* its domain is the seed's, or when its domain was seen before.
RECURSIVE ScanResults(_, _, _)
ScanResults(res, orig, st) ==
    IF res = <<>> THEN st
    ELSE LET url == Head(res)
             d == get_domain(url)
             keep == /\ _looks_like_product_url(url)
                     /\ d # orig
                     /\ d \notin st.seen
         IN  ScanResults(Tail(res), orig,
                 IF keep THEN [cands |-> Append(st.cands, url),
                               seen |-> st.seen \cup {d}]
                 ELSE st)

\* Hosts and paths of the model's URLs.
HostA == <<"a", ".", "c", "o">>
HostB == <<"b", ".", "c", "o">>
HostBCap == <<"B", ".", "c", "o">>
PathP == <<"/", "p">>
PathX == <<"/", "x">>
PathSearch == <<"/", "s", "e", "a", "r", "c", "h">>
QueryQ == <<"?", "q">>

\* Seed URLs a user can submit: /analyze only strips blanks.
SeedUrls ==
    { Https \o HostA \o PathP, HttpsCap \o HostA \o PathP,
      Https \o HostA \o QueryQ, Http \o HostA }

\* Links the search provider can return.
ResultUrls ==
    { Https \o HostA \o PathX, Http \o HostA \o PathP,
      Https \o HostB \o PathP, Https \o HostBCap \o PathX,
      Https \o HostB \o PathSearch, Https \o HostB \o QueryQ }

\* Most links one search request returns in the model (the code asks for 10).
MaxResults == 2
\* Most queries in the model (build_queries returns at most 3).
MaxQueries == 2

ResultLists == UNION { [1..n -> ResultUrls] : n \in 0..MaxResults }

SearchIdle ==
    /\ original_url = <<>>
    /\ queries = 0
    /\ served = <<>>
    /\ candidates = <<>>
    /\ seen_domains = {}
    /\ search_pc = "idle"
    /\ search_result = <<>>

\* queries is the number of queries still to issue; served is the provider's
\* answers so far, in order.
SearchInit ==
    /\ original_url \in SeedUrls
    /\ queries \in 0..MaxQueries
    /\ served = <<>>
    /\ candidates = <<>>
    /\ seen_domains = {}
    /\ search_pc = "loop"
    /\ search_result = <<>>

\* One iteration of `for q in queries`: the provider answers (an empty list
\* when it is unavailable) and the links are scanned.
SearchQuery ==
    /\ search_pc = "loop"
    /\ queries > 0
    /\ \E res \in ResultLists :
         LET st == ScanResults(res, get_domain(original_url),
                               [cands |-> candidates, seen |-> seen_domains])
         IN  /\ candidates' = st.cands
             /\ seen_domains' = st.seen
             /\ served' = served \o res
    /\ queries' = queries - 1
    /\ UNCHANGED <<original_url, search_pc, search_result>>
    /\ SearchFrame

\* return candidates[:20]
SearchReturn ==
    /\ search_pc = "loop"
    /\ queries = 0
    /\ search_result' =
         SubSeq(candidates, 1,
                IF Len(candidates) < MaxCandidates THEN Len(candidates)
                ELSE MaxCandidates)
    /\ search_pc' = "returned"
    /\ UNCHANGED <<original_url, queries, served, candidates, seen_domains>>
    /\ SearchFrame

SearchNext == SearchQuery \/ SearchReturn

\* The host a URL names (RFC 3986): the scheme, whatever its case, is
\* dropped, the authority ends at the first "/", "?" or "#", a port is not
\* part of the host, and host names compare without case.
UrlHost(url) ==
    LET l == Lower(url)
        rest == IF StartsWith(l, Https) THEN DropFirst(l, Len(Https))
                ELSE IF StartsWith(l, Http) THEN DropFirst(l, Len(Http))
                ELSE l
    IN  SplitFirst(SplitFirst(SplitFirst(SplitFirst(rest, "/"), "?"), "#"), ":")

\* C2: search_candidates never returns a URL whose domain is the seed's own
\* domain, never returns two URLs of the same domain, and the URL kept for a
\* domain is the first product-looking link of that domain in the provider's
\* answers, in query order.
SearchExcludesSeedAndDedups ==
    search_pc = "returned" =>
       /\ \A i \in DOMAIN search_result :
            UrlHost(search_result[i]) # UrlHost(original_url)
       /\ \A i, j \in DOMAIN search_result :
            i # j => UrlHost(search_result[i]) # UrlHost(search_result[j])
       /\ \A i \in DOMAIN search_result : \A k \in DOMAIN served :
            ( /\ UrlHost(served[k]) = UrlHost(search_result[i])
              /\ _looks_like_product_url(served[k]) )
            => \E m \in 1..k : served[m] = search_result[i]

-----------------------------------------------------------------------------
(* searcher.build_queries.                                                 *)

\* Python's None, where a field of a signal record can hold it.
None == <<"None">>

\* x or ""
OrEmpty(x) == IF x = None THEN <<>> ELSE x

Blank == <<" ">>
Quote == <<"\"">>

\* " ".join([x for x in [brand, model] if x]).strip()
QueryBase(brand, model) ==
    Strip(IF brand # <<>> /\ model # <<>> THEN brand \o Blank \o model
          ELSE IF brand # <<>> THEN brand
          ELSE model)

\* [q1, q2, q3] of build_queries
QueryCandidates(sig) ==
    LET title == OrEmpty(sig.title)
        brand == OrEmpty(sig.brand)
        model == IF OrEmpty(sig.model) # <<>> THEN sig.model
                 ELSE OrEmpty(sig.mpn)
        base == QueryBase(brand, model)
        q1 == IF title # <<>> THEN Quote \o title \o Quote ELSE base
        q2 == IF base # <<>> THEN Strip(brand \o Blank \o model) ELSE title
        q3 == Strip(title \o Blank \o brand)
    IN  <<q1, q2, q3>>

\* The set comprehension without its `if q` filter.
QuerySetUnfiltered(sig) ==
    {QueryCandidates(sig)[i] : i \in 1..3}

\* {q for q in [q1, q2, q3] if q}
QuerySet(sig) ==
    {q \in {QueryCandidates(sig)[i] : i \in 1..3} : q # <<>>}

\* queries[:3]
MaxQueriesReturned == 3

\* list(set)[:3]: a set is listed in an order the code does not choose.
QueryLists(sig) ==
    LET S == QuerySet(sig)
        n == Cardinality(S)
        orders == {f \in [1..n -> S] : \A i, j \in 1..n : i # j => f[i] # f[j]}
    IN  {SubSeq(f, 1, IF n < MaxQueriesReturned THEN n ELSE MaxQueriesReturned) :
            f \in orders}

\* Signal records as extract_product_signals builds them: the title went
\* through clean_title (stripped, then cut to 200 characters, so it may end
\* in a blank but is never blank-only); the brand is the JSON-LD text as it
\* is, or None; model and mpn are matched tokens, or absent.
QuerySignals ==
    [title : { <<>>, <<"a">>, <<"a", " ", "b">>, <<"a", " ">> },
     brand : { None, <<>>, Blank, <<"a">>, <<"B">> },
     model : { None, <<"X", "-", "1">> },
     mpn : { None, <<"m">> }]

QueryIdle ==
    /\ signals = [title |-> <<>>, brand |-> None, model |-> None, mpn |-> None]
    /\ first_queries = <<>>
    /\ second_queries = <<>>
    /\ queries_pc = "idle"

QueryInit ==
    /\ signals \in QuerySignals
    /\ first_queries = <<>>
    /\ second_queries = <<>>
    /\ queries_pc = "start"

\* build_queries(signals), a first time
BuildQueries ==
    /\ queries_pc = "start"
    /\ first_queries' \in QueryLists(signals)
    /\ queries_pc' = "once"
    /\ UNCHANGED <<signals, second_queries>>
    /\ QueryFrame

\* build_queries(signals), again on the same record
BuildQueriesAgain ==
    /\ queries_pc = "once"
    /\ second_queries' \in QueryLists(signals)
    /\ queries_pc' = "twice"
    /\ UNCHANGED <<signals, first_queries>>
    /\ QueryFrame

QueryNext == BuildQueries \/ BuildQueriesAgain

IsBlankOnly(q) == \A i \in DOMAIN q : q[i] = " "

\* C8: build_queries returns at most 3 queries, pairwise distinct, none
\* empty or blank-only, and a second call on the same record returns the
\* same set of queries.
BuildQueriesContract ==
    /\ queries_pc \in {"once", "twice"} =>
         /\ Len(first_queries) <= 3
         /\ \A i, j \in DOMAIN first_queries :
              i # j => first_queries[i] # first_queries[j]
         /\ \A i \in DOMAIN first_queries : ~IsBlankOnly(first_queries[i])
    /\ queries_pc = "twice" =>
         {first_queries[i] : i \in DOMAIN first_queries}
            = {second_queries[i] : i \in DOMAIN second_queries}

\* Two calls on a record with a blank brand and no title returned three
\* distinct queries in different orders.
BuildQueriesWitness ==
    /\ queries_pc = "twice"
    /\ Len(first_queries) = 3
    /\ first_queries # second_queries
    /\ signals.title # <<>>

-----------------------------------------------------------------------------
(* extractor.extract_product_signals: the attribute dictionary.            *)

\* [a-z0-9]
IsAlnum(c) ==
    c \in {"a", "b", "c", "d", "e", "g", "h", "i", "l", "n", "o", "p", "r", "s",
           "t", "u", "w", "x", "y", "z", "0", "1", "2"}

\* re.sub(r"[^a-z0-9]+", "_", s): every run of other characters becomes one "_"
RECURSIVE CollapseNonAlnum(_, _)
CollapseNonAlnum(s, out) ==
    IF s = <<>> THEN out
    ELSE IF IsAlnum(Head(s)) THEN CollapseNonAlnum(Tail(s), Append(out, Head(s)))
    ELSE IF out # <<>> /\ out[Len(out)] = "_"
         THEN CollapseNonAlnum(Tail(s), out)
         ELSE CollapseNonAlnum(Tail(s), Append(out, "_"))

\* str.strip("_")
StripUnderscore(s) ==
    IF \A i \in DOMAIN s : s[i] = "_" THEN <<>>
    ELSE LET a == CHOOSE k \in DOMAIN s :
                      s[k] # "_" /\ \A m \in 1..(k - 1) : s[m] = "_"
             b == CHOOSE k \in DOMAIN s :
                      s[k] # "_" /\ \A m \in (k + 1)..Len(s) : s[m] = "_"
         IN  SubSeq(s, a, b)

\* re.sub(r"[^a-z0-9]+", "_", name.lower()).strip("_")
NormalizeKey(name) == StripUnderscore(CollapseNonAlnum(Lower(name), <<>>))

KeyColor == <<"c", "o", "l", "o", "r">>
KeyColour == <<"c", "o", "l", "o", "u", "r">>
KeyScreen == <<"s", "c", "r", "e", "e", "n">>
KeyDisplay == <<"d", "i", "s", "p", "l", "a", "y">>
KeyScreenSize == <<"s", "c", "r", "e", "e", "n", "_", "s", "i", "z", "e">>

\* The synonym table of _ingest_pair
Synonym(k) ==
    IF k = KeyColour THEN KeyColor
    ELSE IF k = KeyScreen \/ k = KeyDisplay THEN KeyScreenSize
    ELSE k

\* attributes[k] = v
Put(attrs, k, v) ==
    [x \in DOMAIN attrs \cup {k} |-> IF x = k THEN v ELSE attrs[x]]

\* if k_norm and k_norm not in attributes: attributes[k_norm] = v
InsertIfAbsent(attrs, k, v) ==
    IF k # <<>> /\ k \notin DOMAIN attrs THEN Put(attrs, k, v) ELSE attrs

\* The loop over json_ld["additionalProperty"]: the name is normalized, no
\* synonym is applied.
RECURSIVE IngestAdditional(_, _)
IngestAdditional(props, attrs) ==
    IF props = <<>> THEN attrs
    ELSE LET name == Strip(Head(props).name)
             value == Strip(Head(props).value)
         IN  IngestAdditional(Tail(props),
                 IF name = <<>> \/ value = <<>> THEN attrs
                 ELSE InsertIfAbsent(attrs, NormalizeKey(name), value))

\* _ingest_pair(k, v)
_ingest_pair(attrs, k, v) ==
    IF k = <<>> \/ v = <<>> THEN attrs
    ELSE InsertIfAbsent(attrs, Synonym(NormalizeKey(k)), Strip(v))

\* _ingest_pair over the pairs of one page structure, in document order
RECURSIVE IngestPairs(_, _)
IngestPairs(pairs, attrs) ==
    IF pairs = <<>> THEN attrs
    ELSE IngestPairs(Tail(pairs),
                     _ingest_pair(attrs, Head(pairs).name, Head(pairs).value))

\* Names a page can give an attribute.
RawKeys ==
    { <<"C", "o", "l", "o", "u", "r">>, KeyColor,
      <<"D", "i", "s", "p", "l", "a", "y">>, <<"S", "c", "r", "e", "e", "n">>,
      <<"S", "i", "z", "e", ":", " ">> }

\* Longest list of pairs in the JSON-LD additionalProperty and in the tables
MaxPairs == 2
\* Longest list of pairs in the definition lists and in the list items
MaxListPairs == 1

PairLists(value, n) ==
    UNION { [1..m -> [name : RawKeys, value : {value}]] : m \in 0..n }

\* A page: the JSON-LD color field (None when absent), the additionalProperty
\* list, the table rows, the dt/dd pairs and the "key: value" list items.
\* Each source has a value of its own, so that the dictionary shows which
\* source a key's value came from.
Pages ==
    [color : {None, <<"f">>},
     addl : PairLists(<<"a">>, MaxPairs),
     tables : PairLists(<<"t">>, MaxPairs),
     dl : PairLists(<<"d">>, MaxListPairs),
     li : PairLists(<<" ", "l">>, MaxListPairs)]

EmptyAttributes == [x \in {} |-> <<>>]

ExtractIdle ==
    /\ page = [color |-> None, addl |-> <<>>, tables |-> <<>>, dl |-> <<>>,
               li |-> <<>>]
    /\ attributes = EmptyAttributes
    /\ extract_pc = "idle"

ExtractInit ==
    /\ page \in Pages
    /\ attributes = EmptyAttributes
    /\ extract_pc = "json_ld"

\* 1) JSON-LD common fields, then additionalProperty
IngestJsonLd ==
    /\ extract_pc = "json_ld"
    /\ attributes' =
         IngestAdditional(page.addl,
             IF page.color # None /\ Strip(page.color) # <<>>
             THEN Put(attributes, KeyColor, Strip(page.color))
             ELSE attributes)
    /\ extract_pc' = "tables"
    /\ UNCHANGED page
    /\ ExtractFrame

\* 2) tables
IngestTables ==
    /\ extract_pc = "tables"
    /\ attributes' = IngestPairs(page.tables, attributes)
    /\ extract_pc' = "dl"
    /\ UNCHANGED page
    /\ ExtractFrame

\* dl lists
IngestDl ==
    /\ extract_pc = "dl"
    /\ attributes' = IngestPairs(page.dl, attributes)
    /\ extract_pc' = "li"
    /\ UNCHANGED page
    /\ ExtractFrame

\* bullet lists under spec/feature sections
IngestLi ==
    /\ extract_pc = "li"
    /\ attributes' = IngestPairs(page.li, attributes)
    /\ extract_pc' = "done"
    /\ UNCHANGED page
    /\ ExtractFrame

ExtractNext == IngestJsonLd \/ IngestTables \/ IngestDl \/ IngestLi

\* The pairs of a page in priority order: the JSON-LD flat field, the
\* additionalProperty list, the tables, the definition lists, the list items.
PageInOrder(pg) ==
    (IF pg.color # None THEN << [name |-> KeyColor, value |-> pg.color] >>
     ELSE <<>>)
    \o pg.addl \o pg.tables \o pg.dl \o pg.li

\* The key of a page's pair in the signal record: normalized, synonyms folded
FoldedKey(name) == Synonym(NormalizeKey(Strip(name)))

\* The pairs of the structured data, in the order the code reads them
StructuredPairs(pg) ==
    (IF pg.color # None THEN << [name |-> KeyColor, value |-> pg.color] >>
     ELSE <<>>)
    \o pg.addl

\* C9: attribute sources are merged first-wins in priority order: when a key
\* (normalized and synonym-folded) exists in the structured data and in a
\* table, a definition list or a list item of the same page, the extracted
\* attributes hold under that key the value of the first structured-data
\* pair that has it; no later source's value stands in its place.
AttributesFirstWins ==
    extract_pc = "done" =>
       LET all == PageInOrder(page)
           structured == StructuredPairs(page)
       IN  \A i \in DOMAIN structured :
           \A j \in (Len(structured) + 1)..Len(all) :
              LET k == FoldedKey(structured[i].name)
                  first == CHOOSE n \in DOMAIN structured :
                              /\ FoldedKey(structured[n].name) = k
                              /\ \A m \in 1..(n - 1) :
                                   FoldedKey(structured[m].name) # k
              IN  (k # <<>> /\ FoldedKey(all[j].name) = k) =>
                     /\ k \in DOMAIN attributes
                     /\ attributes[k] = Strip(structured[first].value)

-----------------------------------------------------------------------------
(* scorer._cosine and scorer._compute_similarity.  A component score is in *)
(* thousandths, the fused similarity in hundred-thousandths.               *)

Min(a, b) == IF a < b THEN a ELSE b
Max(a, b) == IF a > b THEN a ELSE b

\* sum(x * y for x, y in zip(a, b)): zip stops at the shorter vector
RECURSIVE Dot(_, _)
Dot(a, b) ==
    IF a = <<>> \/ b = <<>> THEN 0
    ELSE Head(a) * Head(b) + Dot(Tail(a), Tail(b))

\* floor(sqrt(n))
ISqrt(n) == CHOOSE r \in 0..1000 : r * r <= n /\ (r + 1) * (r + 1) > n

\* _cosine(a, b), in thousandths, rounded toward zero
_cosine(a, b) ==
    IF a = <<>> \/ b = <<>> THEN 0
    ELSE LET dot == Dot(a, b)
             na2 == Dot(a, a)
             nb2 == Dot(b, b)
         IN  IF na2 = 0 \/ nb2 = 0 THEN 0
             ELSE LET mag == ISqrt((dot * dot * 1000000) \div (na2 * nb2))
                  IN  IF dot < 0 THEN 0 - mag ELSE mag

\* str.split(): the words of a text, in order
RECURSIVE SplitWords(_, _, _)
SplitWords(s, word, out) ==
    IF s = <<>> THEN (IF word = <<>> THEN out ELSE Append(out, word))
    ELSE IF Head(s) = " "
         THEN SplitWords(Tail(s), <<>>, IF word = <<>> THEN out ELSE Append(out, word))
         ELSE SplitWords(Tail(s), Append(word, Head(s)), out)

WordSet(s) == LET w == SplitWords(s, <<>>, <<>>) IN {w[i] : i \in DOMAIN w}

\* The characters of the model's texts in code-point order
Alphabet ==
    <<" ", "\"", "-", ".", "0", "1", "2", "6", ":", "?", "_",
      "a", "b", "c", "d", "e", "g", "h", "i", "l", "m", "n", "o", "p", "r", "s",
      "t", "u", "w", "x", "y", "z">>

CharRank(c) == CHOOSE i \in DOMAIN Alphabet : Alphabet[i] = c

\* a < b for strings
RECURSIVE LexLess(_, _)
LexLess(a, b) ==
    IF b = <<>> THEN FALSE
    ELSE IF a = <<>> THEN TRUE
    ELSE IF Head(a) = Head(b) THEN LexLess(Tail(a), Tail(b))
    ELSE CharRank(Head(a)) < CharRank(Head(b))

\* " ".join(sorted(words))
RECURSIVE SortedJoin(_)
SortedJoin(S) ==
    IF S = {} THEN <<>>
    ELSE LET w == CHOOSE x \in S : \A y \in S \ {x} : LexLess(x, y)
         IN  IF S = {w} THEN w ELSE w \o <<" ">> \o SortedJoin(S \ {w})

\* Length of a longest common subsequence
RECURSIVE Lcs(_, _)
Lcs(a, b) ==
    IF a = <<>> \/ b = <<>> THEN 0
    ELSE IF Head(a) = Head(b) THEN 1 + Lcs(Tail(a), Tail(b))
    ELSE Max(Lcs(Tail(a), b), Lcs(a, Tail(b)))

\* rapidfuzz's normalized similarity for an insert/delete distance, in
\* thousandths
NormSim(dist, lensum) ==
    IF lensum = 0 THEN 1000 ELSE 1000 - (1000 * dist) \div lensum

\* rapidfuzz.fuzz.token_set_ratio(s1, s2) * 10: 0 when either text has no
\* word, 100 when one word set contains the other, else the best of the
\* three ratios over the sorted intersection and the sorted differences.
token_set_ratio(s1, s2) ==
    LET A == WordSet(s1)
        B == WordSet(s2)
        sect == SortedJoin(A \cap B)
        ab == SortedJoin(A \ B)
        ba == SortedJoin(B \ A)
        sep == IF sect = <<>> THEN 0 ELSE 1
        sect_ab_len == Len(sect) + sep + Len(ab)
        sect_ba_len == Len(sect) + sep + Len(ba)
        dist == Len(ab) + Len(ba) - 2 * Lcs(ab, ba)
        result == NormSim(dist, sect_ab_len + sect_ba_len)
    IN  IF A = {} \/ B = {} THEN 0
        ELSE IF A \cap B # {} /\ (A \ B = {} \/ B \ A = {}) THEN 1000
        ELSE IF sect = <<>> THEN result
        ELSE Max(result,
                 Max(NormSim(sep + Len(ab), Len(sect) + sect_ab_len),
                     NormSim(sep + Len(ba), Len(sect) + sect_ba_len)))

IsDigit(c) == c \in {"0", "1", "2", "6"}

\* re.findall(r"\d+(?:\.\d+)?", s): cur is the number being read, frac tells
\* whether its decimal point was read
RECURSIVE FindNumbers(_, _, _, _)
FindNumbers(s, cur, frac, out) ==
    IF s = <<>> THEN (IF cur = <<>> THEN out ELSE out \cup {cur})
    ELSE IF IsDigit(Head(s)) THEN FindNumbers(Tail(s), Append(cur, Head(s)), frac, out)
    ELSE IF /\ Head(s) = "." /\ cur # <<>> /\ ~frac
            /\ Len(s) > 1 /\ IsDigit(s[2])
         THEN FindNumbers(Tail(s), Append(cur, "."), TRUE, out)
    ELSE FindNumbers(Tail(s), <<>>, FALSE,
                     IF cur = <<>> THEN out ELSE out \cup {cur})

_numbers(s) == FindNumbers(s, <<>>, FALSE, {})

\* " ".join(str(val).lower().split())
_normalize_value(val) ==
    LET w == SplitWords(Lower(val), <<>>, <<>>)
        Join[i \in 0..Len(w)] ==
            IF i = 0 THEN <<>>
            ELSE IF i = 1 THEN w[1] ELSE Join[i - 1] \o <<" ">> \o w[i]
    IN  Join[Len(w)]

\* The fuzzy threshold of _values_match, in thousandths
ValueMatchThreshold == 850

_values_match(a, b) ==
    IF a = <<>> \/ b = <<>> THEN FALSE
    ELSE IF _numbers(a) \cap _numbers(b) # {} THEN TRUE
    ELSE token_set_ratio(_normalize_value(a), _normalize_value(b))
            >= ValueMatchThreshold

IdKinds == {"gtin", "mpn", "sku", "model"}

\* The identifier kinds on which seed and candidate agree with a non-empty
\* value
IdOverlap(ids_seed, ids_cand) ==
    Cardinality({k \in IdKinds :
        /\ k \in DOMAIN ids_seed /\ ids_seed[k] # <<>>
        /\ k \in DOMAIN ids_cand /\ ids_cand[k] # <<>>
        /\ ids_seed[k] = ids_cand[k]})

\* The identifier score without its cap.
IdScoreUncapped(overlap) == (1000 * overlap) \div 2

\* min(overlap, 2.0) / 2.0
IdScore(overlap) == (1000 * Min(overlap, 2)) \div 2

\* list(common_keys)[:12]
MaxCommonKeys == 12

\* The key sets list(common_keys)[:12] can be: a set is listed in an order
\* the code does not choose.
RECURSIVE KeepAtMost(_, _)
KeepAtMost(S, n) ==
    IF Cardinality(S) <= n THEN {S}
    ELSE UNION {KeepAtMost(S \ {k}, n) : k \in S}

CheckedKeySets(attrs_seed, attrs_cand) ==
    KeepAtMost(DOMAIN attrs_seed \cap DOMAIN attrs_cand, MaxCommonKeys)

\* The five component scores and the fused similarity of
\* _compute_similarity(seed, cand, seed_emb, cand_emb); checked is the value
\* of list(common_keys)[:12].
_compute_similarity(sd, cd, se, ce, checked) ==
    LET title_seed == Lower(OrEmpty(sd.title))
        title_cand == Lower(OrEmpty(cd.title))
        brand_seed == Lower(OrEmpty(sd.brand))
        brand_cand == Lower(OrEmpty(cd.brand))
        s_emb == _cosine(se, ce)
        s_title == token_set_ratio(title_seed, title_cand)
        s_id == IdScore(IdOverlap(sd.identifiers, cd.identifiers))
        s_brand == IF brand_seed # <<>> /\ brand_seed = brand_cand THEN 1000 ELSE 0
        matches == Cardinality({k \in checked :
                       _values_match(sd.attributes[k], cd.attributes[k])})
        denom == Max(1, Min(Cardinality(DOMAIN sd.attributes),
                            Cardinality(DOMAIN cd.attributes)))
        s_attr == (1000 * matches) \div denom
    IN  [s_emb |-> s_emb, s_title |-> s_title, s_id |-> s_id,
         s_brand |-> s_brand, s_attr |-> s_attr,
         similarity |-> 40 * s_emb + 22 * s_title + 18 * s_id
                          + 10 * s_brand + 10 * s_attr]

NoIds == [k \in {} |-> <<>>]
NoAttrs == [k \in {} |-> <<>>]

\* Thirteen attribute keys, one more than list(common_keys)[:12] keeps
ManyKeys ==
    {"k01", "k02", "k03", "k04", "k05", "k06", "k07", "k08", "k09", "k10",
     "k11", "k12", "k13"}

\* Signal records for scoring.
SimTitles == { None, <<"a", "b">>, <<"A", "b", " ", "c", "d">> }
SimBrands == { None, <<"a">>, <<"A">> }
SimIds ==
    { NoIds,
      [k \in {"model"} |-> <<"x", "-", "1">>],
      [k \in {"model", "sku"} |-> <<"x", "-", "1">>],
      [k \in {"gtin", "mpn", "sku"} |-> <<"1", "2">>] }
SimAttrs ==
    { NoAttrs,
      [k \in {"color", "size"} |->
          IF k = "color" THEN <<"b", "l", "u", "e">> ELSE <<"6", ".", "1", " ", "i", "n">>] }

\* A record with every signal and thirteen attributes
ManyAttrRecord ==
    [title |-> <<"a", "b">>, brand |-> <<"a">>,
     identifiers |-> [k \in {"model", "sku"} |-> <<"x", "-", "1">>],
     attributes |-> [k \in ManyKeys |-> <<"o", "n">>]]

SimRecords ==
    [title : SimTitles, brand : SimBrands, identifiers : SimIds,
     attributes : SimAttrs]
    \cup {ManyAttrRecord}

\* Seeds: every shape of record, with fewer spellings.
SimSeeds ==
    [title : { None, <<"a", "b">> }, brand : { None, <<"a">> },
     identifiers : SimIds, attributes : SimAttrs]
    \cup {ManyAttrRecord}

\* Pairs of embedding vectors (seed, candidate); <<>> is a missing vector.
EmbeddingPairs ==
    { << <<>>, <<>> >>, << <<1, 0>>, <<>> >>, << <<0, 0>>, <<0, 0>> >>,
      << <<1, 0>>, <<1, 0>> >>, << <<1, 2>>, <<1, 2>> >>,
      << <<1, 0>>, <<-1, 0>> >>, << <<1, 0>>, <<1, 2>> >> }

NoSim ==
    [s_emb |-> 0, s_title |-> 0, s_id |-> 0, s_brand |-> 0, s_attr |-> 0,
     similarity |-> 0]

EmptyRecord ==
    [title |-> None, brand |-> None, identifiers |-> NoIds, attributes |-> NoAttrs]

SimIdle ==
    /\ seed = EmptyRecord
    /\ cand = EmptyRecord
    /\ seed_emb = <<>>
    /\ cand_emb = <<>>
    /\ sim = NoSim
    /\ sim_pc = "idle"

SimInit ==
    /\ seed \in SimSeeds
    /\ cand \in SimRecords
    /\ \E pair \in EmbeddingPairs : seed_emb = pair[1] /\ cand_emb = pair[2]
    /\ sim = NoSim
    /\ sim_pc = "start"

\* sim = _compute_similarity(seed_signals, cand, seed_emb, emb)
ComputeSimilarity ==
    /\ sim_pc = "start"
    /\ \E checked \in CheckedKeySets(seed.attributes, cand.attributes) :
         sim' = _compute_similarity(seed, cand, seed_emb, cand_emb, checked)
    /\ sim_pc' = "done"
    /\ UNCHANGED <<seed, cand, seed_emb, cand_emb>>
    /\ SimFrame

SimNext == ComputeSimilarity

\* Seed and candidate are the same record with equal embedding vectors.
IdenticalPair == sim_pc = "done" /\ seed = cand /\ seed_emb = cand_emb

HasWord(text) == text # None /\ WordSet(text) # {}

\* The record has what every component needs to score 1: a title and a
\* brand with a word in them, two identifiers, between 1 and 12 attributes
\* each with a word in its value, and a vector that is there and not zero.
FullySignalled(r, e) ==
    /\ HasWord(r.title)
    /\ OrEmpty(r.brand) # <<>>
    /\ Cardinality({k \in DOMAIN r.identifiers : r.identifiers[k] # <<>>}) >= 2
    /\ Cardinality(DOMAIN r.attributes) \in 1..MaxCommonKeys
    /\ \A k \in DOMAIN r.attributes : WordSet(r.attributes[k]) # {}
    /\ e # <<>>
    /\ Dot(e, e) # 0

\* C6 as stated: two identical signal records with equal embedding vectors
\* have similarity 1.0.
IdenticalScoresOne == IdenticalPair => sim.similarity = 100000

\* C6, amended: two identical signal records with equal embedding vectors
\* have similarity 1.0 when the record is fully signalled.
IdenticalFullScoresOne ==
    (IdenticalPair /\ FullySignalled(seed, seed_emb)) => sim.similarity = 100000

\* A fully signalled identical pair with three identifiers has been scored.
IdenticalFullWitness ==
    /\ IdenticalPair
    /\ FullySignalled(seed, seed_emb)
    /\ Cardinality(DOMAIN seed.identifiers) = 3
    /\ Cardinality(DOMAIN seed.attributes) = 2

\* C7: the fused similarity lies in [0,1], and so does each of the five
\* component scores.
SimilarityInUnitInterval ==
    sim_pc = "done" =>
       /\ sim.similarity \in 0..100000
       /\ sim.s_emb \in 0..1000
       /\ sim.s_title \in 0..1000
       /\ sim.s_id \in 0..1000
       /\ sim.s_brand \in 0..1000
       /\ sim.s_attr \in 0..1000

-----------------------------------------------------------------------------
(* scorer.score_candidates.                                                *)

\* ThreadPoolExecutor(max_workers=6)
MaxWorkers == 6
\* s["similarity"] >= 0.50, in hundred-thousandths
Threshold == 50000
\* [:5]
TopN == 5

TwoIds == [k \in {"model", "sku"} |-> <<"x", "-", "1">>]
TwoAttrs ==
    [k \in {"color", "size"} |->
        IF k = "color" THEN <<"b", "l", "u", "e">> ELSE <<"6", ".", "1", " ", "i", "n">>]

\* The seed of the scoring runs
ScoreSeed ==
    [title |-> <<"a", "b">>, brand |-> <<"a">>, identifiers |-> TwoIds,
     attributes |-> TwoAttrs]

\* The embedding provider's vector for the seed's text
ScoreSeedEmb == <<1, 0>>

PageUrl(host) == Https \o <<host>> \o PathP

\* What extract_product_signals makes of each candidate page (ok = FALSE: it
\* raises), and the vector the embedding provider gives the page's text.
PageOf(u) ==
    LET rec(t, b, ids, at, e, good) ==
            [url |-> PageUrl(u), title |-> t, brand |-> b, identifiers |-> ids,
             attributes |-> at, emb |-> e, ok |-> good]
    IN  CASE u = "a" -> rec(<<"a", "b">>, <<"a">>, TwoIds, TwoAttrs, <<1, 0>>, TRUE)
          [] u = "b" -> rec(<<"a", "b">>, <<"A">>, NoIds, NoAttrs, <<1, 0>>, TRUE)
          [] u = "c" -> rec(<<"c", "d">>, None, TwoIds, NoAttrs, <<1, 0>>, TRUE)
          [] u = "d" -> rec(None, <<"a">>, NoIds, NoAttrs, <<1, 0>>, TRUE)
          [] u = "e" -> rec(<<"a", "b">>, <<"A">>, NoIds, NoAttrs, <<1, 0>>, TRUE)
          [] u = "g" -> rec(<<"a", "b">>, None, TwoIds, NoAttrs, <<1, 0>>, TRUE)
          [] u = "h" -> rec(<<"a", "b">>, None, NoIds, TwoAttrs, <<1, 0>>, TRUE)
          [] u = "i" -> rec(<<"A", "b", " ", "c", "d">>, <<"a">>, NoIds, NoAttrs,
                            <<1, 2>>, TRUE)
          [] u = "l" -> rec(None, None, NoIds, NoAttrs, <<>>, FALSE)
          [] u = "n" -> rec(<<"a", "b">>, <<"a">>, NoIds, NoAttrs, <<-1, 0>>, TRUE)

\* Candidate lists: the first is all matches, the second mixes a page under
\* the threshold, a page whose extraction raises, a page with an opposed
\* vector and matches.
CandidateHosts ==
    { <<"a", "b", "c", "d", "e", "g", "h">>,
      <<"i", "l", "a", "n", "d", "b", "c">> }

\* Most candidate URLs in one scoring run of the model (the search returns
\* up to 20)
MaxCands == 6

CandidateLists ==
    { [i \in 1..n |-> PageUrl(hosts[i])] :
        hosts \in CandidateHosts, n \in 0..Min(MaxCands, 7) }

\* The host letter of a model URL: the page it names
HostOf(url) == url[Len(Https) + 1]

\* The futures running or finished: the pool starts them in submission
\* order, MaxWorkers at a time.
Started(done, n) == 1..Min(n, MaxWorkers + Cardinality(done))

\* One entry of `scored`
ScoredEntry(sd, c, se, e) ==
    [domain |-> get_domain(c.url),
     url |-> c.url,
     similarity |->
        _compute_similarity(sd, c, se, e,
            DOMAIN sd.attributes \cap DOMAIN c.attributes).similarity,
     signals |-> c]

\* zip(candidates, cand_embs): the entries of `scored` before the sort
RECURSIVE ScoreAll(_, _, _, _)
ScoreAll(sd, cs, se, es) ==
    IF cs = <<>> \/ es = <<>> THEN <<>>
    ELSE <<ScoredEntry(sd, Head(cs), se, Head(es))>>
            \o ScoreAll(sd, Tail(cs), se, Tail(es))

\* x put into a list sorted by descending similarity, after its equals
RECURSIVE InsertDesc(_, _)
InsertDesc(x, sorted) ==
    IF sorted = <<>> THEN <<x>>
    ELSE IF x.similarity > Head(sorted).similarity THEN <<x>> \o sorted
    ELSE <<Head(sorted)>> \o InsertDesc(x, Tail(sorted))

\* sorted(scored, key=similarity, reverse=True): stable
RECURSIVE SortDesc(_)
SortDesc(xs) ==
    IF xs = <<>> THEN <<>>
    ELSE InsertDesc(xs[Len(xs)], SortDesc(SubSeq(xs, 1, Len(xs) - 1)))

\* The ranking without its threshold.
RankNoThreshold(xs) ==
    LET s == SortDesc(xs) IN SubSeq(s, 1, Min(TopN, Len(s)))

\* sorted(...), then [s for s in scored if similarity >= 0.50][:5]
Rank(xs) ==
    LET kept == SelectSeq(SortDesc(xs), LAMBDA x : x.similarity >= Threshold)
    IN  SubSeq(kept, 1, Min(TopN, Len(kept)))

ScoreIdle ==
    /\ seed_signals = EmptyRecord
    /\ candidate_urls = <<>>
    /\ provider = "ok"
    /\ completed = {}
    /\ extracted = <<>>
    /\ embs = <<>>
    /\ scored = <<>>
    /\ score_pc = "idle"

\* provider: whether the embedding provider can answer ("ok"), has no
\* credentials, or answers with an error.  completed: the futures that have
\* been collected; extracted: the list `candidates` of the code.
ScoreInit ==
    /\ seed_signals = ScoreSeed
    /\ candidate_urls \in CandidateLists
    /\ provider \in {"ok", "no_credentials", "erroring"}
    /\ completed = {}
    /\ extracted = <<>>
    /\ embs = <<>>
    /\ scored = <<>>
    /\ score_pc = "extract"

\* A future's exception ends the collection with what it had, losing the
\* candidates collected before it.
CollectLosingPool(pool, pg) == IF pg.ok THEN Append(pool, pg) ELSE <<>>

\* try: candidates.append(fut.result()) / except Exception: continue
Collect(pool, pg) == IF pg.ok THEN Append(pool, pg) ELSE pool

\* One future completes and is collected by the as_completed loop: its
\* signals are appended, or its exception is swallowed.
ExtractCompletes ==
    /\ score_pc = "extract"
    /\ \E i \in Started(completed, Len(candidate_urls)) \ completed :
         LET pg == PageOf(HostOf(candidate_urls[i]))
         IN  /\ completed' = completed \cup {i}
             /\ extracted' = Collect(extracted, pg)
    /\ UNCHANGED <<seed_signals, candidate_urls, provider, embs, scored, score_pc>>
    /\ ScoreFrame

\* embs = _embed([seed_text] + cand_texts): one vector per text
EmbedTexts ==
    /\ score_pc = "extract"
    /\ completed = DOMAIN candidate_urls
    /\ provider = "ok"
    /\ embs' = <<ScoreSeedEmb>> \o [i \in DOMAIN extracted |-> extracted[i].emb]
    /\ score_pc' = "score"
    /\ UNCHANGED <<seed_signals, candidate_urls, provider, completed, extracted, scored>>
    /\ ScoreFrame

\* _embed raises (OpenAI() without credentials, or a failed request):
\* nothing in _embed or score_candidates catches it.
EmbedRaises ==
    /\ score_pc = "extract"
    /\ completed = DOMAIN candidate_urls
    /\ provider # "ok"
    /\ score_pc' = "raised"
    /\ UNCHANGED <<seed_signals, candidate_urls, provider, completed, extracted,
                   embs, scored>>
    /\ ScoreFrame

\* The scoring loop, the sort, the threshold and the cut
RankCandidates ==
    /\ score_pc = "score"
    /\ LET seed_e == IF embs # <<>> THEN embs[1] ELSE <<>>
           cand_embs == IF Len(embs) > 1 THEN Tail(embs)
                        ELSE [i \in DOMAIN extracted |-> <<>>]
       IN  scored' = Rank(ScoreAll(seed_signals, extracted, seed_e, cand_embs))
    /\ score_pc' = "returned"
    /\ UNCHANGED <<seed_signals, candidate_urls, provider, completed, extracted, embs>>
    /\ ScoreFrame

ScoreNext == ExtractCompletes \/ EmbedTexts \/ EmbedRaises \/ RankCandidates

\* C1: the list score_candidates returns has no entry with similarity below
\* 0.50, has at most 5 entries, and is ordered by non-increasing similarity.
RankingContract ==
    score_pc = "returned" =>
       /\ \A i \in DOMAIN scored : scored[i].similarity >= 50000
       /\ Len(scored) <= 5
       /\ \A i \in 1..(Len(scored) - 1) :
            scored[i].similarity >= scored[i + 1].similarity

\* Six candidates were extracted, one exactly at 0.50, and five were returned.
RankingTruncatedWitness ==
    /\ score_pc = "returned"
    /\ Len(extracted) = 6
    /\ Len(scored) = 5
    /\ \E i \in DOMAIN extracted :
         ScoredEntry(seed_signals, extracted[i], embs[1], extracted[i].emb).similarity
            = 50000

\* C4: when the embedding provider is unavailable, score_candidates does
\* not fail: it returns the ranking computed with s_emb = 0 for every
\* candidate.
EmbeddingOutageStillRanks ==
    provider # "ok" =>
       /\ score_pc # "raised"
       /\ score_pc = "returned" =>
            scored = Rank(ScoreAll(seed_signals, extracted, <<>>,
                                   [i \in DOMAIN extracted |-> <<>>]))

\* The pages of the candidate list whose extraction returns
Extractable ==
    { pg \in { PageOf(HostOf(candidate_urls[i])) : i \in DOMAIN candidate_urls } :
        pg.ok }

\* The entry the scoring loop makes for a page
EntryOf(pg) == ScoredEntry(seed_signals, pg, ScoreSeedEmb, pg.emb)

\* C11: with the embedding provider answering, a candidate whose extraction
\* raises is the only one dropped: whatever the order in which the futures
\* complete, the pool is exactly the candidates whose extraction returned,
\* each once and each with its own vector, the call returns, and a
\* candidate is missing from the returned list only because its score is
\* under 0.50 or five candidates score at least as high.
ExtractionFailureIsolated ==
    provider = "ok" =>
       /\ score_pc # "raised"
       /\ score_pc \in {"score", "returned"} =>
            /\ {extracted[i] : i \in DOMAIN extracted} = Extractable
            /\ Len(extracted) = Cardinality(Extractable)
            /\ Len(embs) = Len(extracted) + 1
            /\ \A i \in DOMAIN extracted : embs[i + 1] = extracted[i].emb
       /\ score_pc = "returned" =>
            LET entries == { EntryOf(pg) : pg \in Extractable }
            IN  /\ \A i \in DOMAIN scored : scored[i] \in entries
                /\ \A e \in entries :
                     \/ \E i \in DOMAIN scored : scored[i] = e
                     \/ e.similarity < Threshold
                     \/ /\ Len(scored) = TopN
                        /\ \A i \in DOMAIN scored :
                             scored[i].similarity >= e.similarity

\* A run has returned in which one extraction raised after another
\* candidate had been collected, the futures completed out of submission
\* order, and the candidates that were extracted are ranked.
ExtractionFailureWitness ==
    /\ score_pc = "returned"
    /\ provider = "ok"
    /\ \E i \in DOMAIN candidate_urls : ~PageOf(HostOf(candidate_urls[i])).ok
    /\ Len(extracted) >= 2
    /\ extracted[1].url # candidate_urls[1]
    /\ Len(scored) >= 2

-----------------------------------------------------------------------------
(* app: /analyze, _run_job, _enqueue and the /events stream.               *)

\* Most jobs created in the model
MaxJobs == 1
\* The lengths of the lists the pipeline calls return: empty or not.  Only
\* the text of a message and the results depend on them.
ReportedCounts == {0, 1}
\* queue.Queue(maxsize=1000)
QueueMaxSize == 1000

\* Python's None in a job's results and error fields
Null == [null |-> TRUE]

\* The payloads of _run_job's _enqueue calls, in program order; n is the
\* count the message reports (0 where the message has none).  The ts field
\* is left out.
Checkpoint(k, n) ==
    CASE k = 1 -> [stage |-> "extract", status |-> "running",
                   message |-> "Starting extraction...", count |-> 0]
      [] k = 2 -> [stage |-> "extract", status |-> "ok",
                   message |-> "Extraction complete", count |-> 0]
      [] k = 3 -> [stage |-> "search", status |-> "running",
                   message |-> "Building queries...", count |-> 0]
      [] k = 4 -> [stage |-> "search", status |-> "ok",
                   message |-> "Built n queries", count |-> n]
      [] k = 5 -> [stage |-> "search", status |-> "running",
                   message |-> "Searching candidates...", count |-> 0]
      [] k = 6 -> [stage |-> "search", status |-> "ok",
                   message |-> "Found n candidate URLs", count |-> n]
      [] k = 7 -> [stage |-> "score", status |-> "running",
                   message |-> "Scoring candidates...", count |-> 0]
      [] k = 8 -> [stage |-> "score", status |-> "ok",
                   message |-> "Selected n top matches", count |-> n]

DoneEvent ==
    [stage |-> "final", status |-> "done", message |-> "done", count |-> 0]

\* {"message": f"error: {exc}", "status": "error"}: no stage
ErrorEvent(exc) ==
    [stage |-> "none", status |-> "error", message |-> exc, count |-> 0]

\* job["queue"].put_nowait(payload), queue.Full swallowed
PutNowait(q, payload) ==
    IF Len(q) < QueueMaxSize THEN Append(q, payload) ELSE q

\* The "done" event put on the queue before the status and the results
\* are stored.
ProgramOrderEventFirst ==
    <<"enq_1", "call_1", "enq_2", "enq_3", "call_2", "enq_4", "enq_5",
      "call_3", "enq_6", "enq_7", "call_4", "enq_8", "enq_done", "set_done",
      "finished">>

\* The positions of a job thread in _run_job, in program order.  "call_k"
\* is the k-th pipeline call (extract_product_signals, build_queries,
\* search_candidates, score_candidates) and "enq_k" the k-th _enqueue.
ProgramOrder ==
    <<"enq_1", "call_1", "enq_2", "enq_3", "call_2", "enq_4", "enq_5",
      "call_3", "enq_6", "enq_7", "call_4", "enq_8", "set_done", "enq_done",
      "finished">>

CheckpointPositions ==
    <<"enq_1", "enq_2", "enq_3", "enq_4", "enq_5", "enq_6", "enq_7", "enq_8">>

PositionOf(pos) == CHOOSE i \in DOMAIN ProgramOrder : ProgramOrder[i] = pos

\* The position after an _enqueue or a call that returned
Following(pos) == ProgramOrder[PositionOf(pos) + 1]

\* The except clause followed by the success path's last _enqueue, as a
\* finally clause would run it.
AfterErrorEventAlsoDone == "enq_done"

\* After the except clause's _enqueue the thread function returns.
AfterErrorEvent == "finished"

\* job["status"] = "error" left out of the except clause.
MarkErrorKeepsStatus(job, exc) == [job EXCEPT !.error = [msg |-> exc]]

\* The except clause's update: job["status"] = "error"; job["error"] = str(exc)
MarkError(job, exc) ==
    [job EXCEPT !.status = "error", !.error = [msg |-> exc]]

\* job["status"] = "done"; job["results"] = results
MarkDone(job, results) ==
    [job EXCEPT !.status = "done", !.results = results]

NoLocal == [exc |-> "none", count |-> 0]

AppIdle ==
    /\ jobs = [j \in {} |-> Null]
    /\ job_pc = [j \in {} |-> "finished"]
    /\ job_local = [j \in {} |-> NoLocal]
    /\ enqueued = [j \in {} |-> <<>>]
    /\ streamed = [j \in {} |-> <<>>]

\* jobs: the registry.  job_pc, job_local: each job thread's position and
\* its locals (the exception caught, the count to report next).  enqueued:
\* every payload put on the job's queue, in order.  streamed: the payloads
\* the /events generators have taken from it.
AppInit == AppIdle

Extend(f, j, v) == [x \in DOMAIN f \cup {j} |-> IF x = j THEN v ELSE f[x]]

\* POST /analyze with a non-empty url: the job is registered and its thread
\* started.  (uuid4 gives a fresh id; the model numbers the jobs.)
Analyze ==
    /\ Cardinality(DOMAIN jobs) < MaxJobs
    /\ LET j == Cardinality(DOMAIN jobs) + 1
       IN  /\ jobs' = Extend(jobs, j, [queue |-> <<>>, status |-> "running",
                                       results |-> Null, error |-> Null,
                                       url |-> "url"])
           /\ job_pc' = Extend(job_pc, j, "enq_1")
           /\ job_local' = Extend(job_local, j, NoLocal)
           /\ enqueued' = Extend(enqueued, j, <<>>)
           /\ streamed' = Extend(streamed, j, <<>>)
    /\ AppFrame

\* POST /analyze with an empty url: redirect to the form, no job.
AnalyzeEmpty ==
    /\ UNCHANGED appVars
    /\ AppFrame

\* _enqueue(job_id, payload) under jobs_lock
Enqueue(j, payload) ==
    LET q == PutNowait(jobs[j].queue, payload)
    IN  /\ jobs' = [jobs EXCEPT ![j].queue = q]
        /\ enqueued' =
             [enqueued EXCEPT
                ![j] = IF Len(q) > Len(jobs[j].queue) THEN Append(@, payload) ELSE @]

\* One of the eight progress _enqueue calls of the try block
EnqueueCheckpoint(j) ==
    /\ \E k \in DOMAIN CheckpointPositions :
         /\ job_pc[j] = CheckpointPositions[k]
         /\ Enqueue(j, Checkpoint(k, job_local[j].count))
    /\ job_pc' = [job_pc EXCEPT ![j] = Following(@)]
    /\ UNCHANGED <<job_local, streamed>>
    /\ AppFrame

\* A pipeline call returns; n is the length of the list it returned (0 for
\* extract_product_signals, whose result no message counts).
StageReturns(j) ==
    /\ job_pc[j] \in {"call_1", "call_2", "call_3", "call_4"}
    /\ \E n \in ReportedCounts :
         /\ job_pc[j] = "call_1" => n = 0
         /\ job_local' = [job_local EXCEPT ![j].count = n]
    /\ job_pc' = [job_pc EXCEPT ![j] = Following(@)]
    /\ UNCHANGED <<jobs, enqueued, streamed>>
    /\ AppFrame

\* A pipeline call raises: control passes to the except clause.
StageRaises(j) ==
    /\ job_pc[j] \in {"call_1", "call_2", "call_3", "call_4"}
    /\ job_local' = [job_local EXCEPT ![j].exc = job_pc[j]]
    /\ job_pc' = [job_pc EXCEPT ![j] = "set_error"]
    /\ UNCHANGED <<jobs, enqueued, streamed>>
    /\ AppFrame

\* The results dictionary is built and stored with status "done", under
\* jobs_lock.
SetDone(j) ==
    /\ job_pc[j] = "set_done"
    /\ jobs' = [jobs EXCEPT
                  ![j] = MarkDone(@, [seed |-> @.url,
                                      competitors |-> job_local[j].count])]
    /\ job_pc' = [job_pc EXCEPT ![j] = Following(@)]
    /\ UNCHANGED <<job_local, enqueued, streamed>>
    /\ AppFrame

\* _enqueue(job_id, {"message": "done", "status": "done", "stage": "final"})
EnqueueDone(j) ==
    /\ job_pc[j] = "enq_done"
    /\ Enqueue(j, DoneEvent)
    /\ job_pc' = [job_pc EXCEPT ![j] = Following(@)]
    /\ UNCHANGED <<job_local, streamed>>
    /\ AppFrame

\* The except clause stores status "error" and the message, under jobs_lock.
SetError(j) ==
    /\ job_pc[j] = "set_error"
    /\ jobs' = [jobs EXCEPT ![j] = MarkError(@, job_local[j].exc)]
    /\ job_pc' = [job_pc EXCEPT ![j] = "enq_error"]
    /\ UNCHANGED <<job_local, enqueued, streamed>>
    /\ AppFrame

\* _enqueue(job_id, {"message": f"error: {exc}", "status": "error"})
EnqueueError(j) ==
    /\ job_pc[j] = "enq_error"
    /\ Enqueue(j, ErrorEvent(job_local[j].exc))
    /\ job_pc' = [job_pc EXCEPT ![j] = AfterErrorEvent]
    /\ UNCHANGED <<job_local, streamed>>
    /\ AppFrame

\* A /events generator takes the next payload from the job's queue and
\* yields it.
StreamEvent(j) ==
    /\ jobs[j].queue # <<>>
    /\ streamed' = [streamed EXCEPT ![j] = Append(@, Head(jobs[j].queue))]
    /\ jobs' = [jobs EXCEPT ![j].queue = Tail(@)]
    /\ UNCHANGED <<job_pc, job_local, enqueued>>
    /\ AppFrame

\* What GET /job/<id>/view answers: a redirect to the form for an unknown
\* job, a redirect to the progress page unless the status is "done" and the
\* results are set, the results page otherwise.
JobViewResponse(j) ==
    IF j \notin DOMAIN jobs THEN "redirect_index"
    ELSE IF jobs[j].status # "done" \/ jobs[j].results = Null
         THEN "redirect_progress"
    ELSE "results"

\* GET /job/<id>/view: reads the registry, changes nothing.
JobView(j) ==
    /\ JobViewResponse(j) \in {"redirect_progress", "results"}
    /\ UNCHANGED appVars
    /\ AppFrame

Next ==
    \/ Analyze
    \/ AnalyzeEmpty
    \/ \E j \in DOMAIN jobs : EnqueueCheckpoint(j)
    \/ \E j \in DOMAIN jobs : StageReturns(j)
    \/ \E j \in DOMAIN jobs : StageRaises(j)
    \/ \E j \in DOMAIN jobs : SetDone(j)
    \/ \E j \in DOMAIN jobs : EnqueueDone(j)
    \/ \E j \in DOMAIN jobs : SetError(j)
    \/ \E j \in DOMAIN jobs : EnqueueError(j)
    \/ \E j \in DOMAIN jobs : StreamEvent(j)
    \/ \E j \in DOMAIN jobs : JobView(j)

(* Claims about the job registry and the progress events.                  *)

TerminalStatuses == {"done", "error"}

\* The positions at which the thread has not yet stored a terminal status
BeforeTerminalUpdate(pos) == pos \notin {"enq_done", "enq_error", "finished"}

JobStateOk(j) ==
    /\ jobs[j].status \in {"running"} \cup TerminalStatuses
    /\ BeforeTerminalUpdate(job_pc[j])
         => /\ jobs[j].status = "running"
            /\ jobs[j].results = Null
            /\ jobs[j].error = Null
    /\ job_pc[j] = "finished" => jobs[j].status \in TerminalStatuses
    /\ jobs[j].status = "error"
         <=> job_local[j].exc # "none" /\ job_pc[j] \in {"enq_error", "finished"}
    /\ jobs[j].status = "error"
         => jobs[j].error # Null /\ jobs[j].results = Null
    /\ jobs[j].status = "done"
         => jobs[j].results # Null /\ jobs[j].error = Null

TerminalStatusKept(j) ==
    jobs[j].status \in TerminalStatuses
        => /\ j \in DOMAIN jobs'
           /\ jobs'[j].status = jobs[j].status
           /\ jobs'[j].results = jobs[j].results
           /\ jobs'[j].error = jobs[j].error

\* C5: every job is "running" until its thread stores a terminal status,
\* "done" or "error", which then never changes; a stage that raised gives
\* "error" with an error message and no results; "done" comes with results
\* and no error.
JobStatusContract ==
    /\ [](\A j \in DOMAIN jobs : JobStateOk(j))
    /\ [][\A j \in DOMAIN jobs : TerminalStatusKept(j)]_vars

\* A job whose scoring stage raised has ended with status "error".
JobFailedWitness ==
    \E j \in DOMAIN jobs :
        /\ job_pc[j] = "finished"
        /\ job_local[j].exc = "call_4"
        /\ jobs[j].status = "error"
        /\ jobs[j].error = [msg |-> "call_4"]

IsCheckpoint(e, k) == e = Checkpoint(k, e.count)

IsTerminalEvent(e) == e.status \in TerminalStatuses

\* h is the first k checkpoints, in order
CheckpointPrefix(h, k) ==
    Len(h) = k /\ \A i \in 1..k : IsCheckpoint(h[i], i)

EventsWellFormed(h) ==
    \E k \in 0..8 :
        \/ CheckpointPrefix(h, k)
        \/ /\ Len(h) = k + 1
           /\ CheckpointPrefix(SubSeq(h, 1, k), k)
           /\ IsTerminalEvent(h[k + 1])
           /\ h[k + 1].status = "done" => k = 8

\* C10: the events enqueued for a job are the first checkpoints in their
\* order, then at most one terminal event, which is the last event and is
\* there once the run has ended; a "done" event follows all eight
\* checkpoints.
ProgressEventsContract ==
    \A j \in DOMAIN jobs :
        /\ EventsWellFormed(enqueued[j])
        /\ job_pc[j] = "finished"
             => enqueued[j] # <<>> /\ IsTerminalEvent(enqueued[j][Len(enqueued[j])])

\* A job has enqueued all eight checkpoints, with a non-zero count, and the
\* "done" event.
ProgressDoneWitness ==
    \E j \in DOMAIN jobs :
        /\ Len(enqueued[j]) = 9
        /\ enqueued[j][9] = DoneEvent
        /\ enqueued[j][6].count = 1

HasEvent(h, e) == \E i \in DOMAIN h : h[i] = e

\* C12: in every state in which a job's "done" event has been enqueued,
\* whether it is still in the queue or has been streamed, the job's status
\* is "done" with results set and /job/<id>/view answers with the results;
\* in every state in which its "error" event has been enqueued, the status
\* is "error" and the error message is stored.
TerminalEventAfterStatus ==
    \A j \in DOMAIN jobs :
        /\ HasEvent(enqueued[j], DoneEvent)
             => /\ jobs[j].status = "done"
                /\ jobs[j].results # Null
                /\ JobViewResponse(j) = "results"
        /\ \A i \in DOMAIN enqueued[j] :
             enqueued[j][i].status = "error"
                => /\ jobs[j].status = "error"
                   /\ jobs[j].error = [msg |-> enqueued[j][i].message]

\* A client has been streamed every event of a job up to its "done" event,
\* and the view of the job is the results page.
DoneStreamedWitness ==
    \E j \in DOMAIN jobs :
        /\ HasEvent(streamed[j], DoneEvent)
        /\ jobs[j].queue = <<>>
        /\ JobViewResponse(j) = "results"

-----------------------------------------------------------------------------
(* Specifications.                                                         *)

InitHttp ==
    HttpInit /\ SearchIdle /\ QueryIdle /\ ExtractIdle /\ SimIdle /\ ScoreIdle
    /\ AppIdle

SpecHttp == InitHttp /\ [][HttpNext]_vars

InitSearch ==
    SearchInit /\ HttpIdle /\ QueryIdle /\ ExtractIdle /\ SimIdle /\ ScoreIdle
    /\ AppIdle

SpecSearch == InitSearch /\ [][SearchNext]_vars

InitQueries ==
    QueryInit /\ HttpIdle /\ SearchIdle /\ ExtractIdle /\ SimIdle /\ ScoreIdle
    /\ AppIdle

SpecQueries == InitQueries /\ [][QueryNext]_vars

InitExtract ==
    ExtractInit /\ HttpIdle /\ SearchIdle /\ QueryIdle /\ SimIdle /\ ScoreIdle
    /\ AppIdle

SpecExtract == InitExtract /\ [][ExtractNext]_vars

InitSim ==
    SimInit /\ HttpIdle /\ SearchIdle /\ QueryIdle /\ ExtractIdle /\ ScoreIdle
    /\ AppIdle

SpecSim == InitSim /\ [][SimNext]_vars

InitScore ==
    ScoreInit /\ HttpIdle /\ SearchIdle /\ QueryIdle /\ ExtractIdle /\ SimIdle
    /\ AppIdle

SpecScore == InitScore /\ [][ScoreNext]_vars

Init ==
    AppInit /\ HttpIdle /\ SearchIdle /\ QueryIdle /\ ExtractIdle /\ SimIdle
    /\ ScoreIdle

Spec == Init /\ [][Next]_vars

=============================================================================
